---- MODULE Spec2Model ----
(***************************************************************************)
(* The conversation state machine of crm_bot/bot.py (aiogram 2 handlers    *)
(* over a MemoryStorage FSM and the Supabase tables leads, tasks,          *)
(* task_files and profiles).                                               *)
(*                                                                         *)
(* A text is a sequence of one-character strings, so that strip(),         *)
(* lower(), isdigit(), int(), strptime() and isoformat() are computed      *)
(* character by character.  Python's None is the value NoneVal.            *)
(***************************************************************************)
EXTENDS Integers, Sequences, FiniteSets, TLC

VARIABLES state, data, leads, tasks, task_files, out, lookups, ev, users, welcoming,
          writes, answering

vars == <<state, data, leads, tasks, task_files, out, lookups, ev, users, welcoming,
          writes, answering>>

\* ------------------------------------------------------------------ bounds

\* The most rows the tables leads and tasks take together, and the most
\* rows the table task_files takes, in the model: past them the store
\* rejects an insert.
MaxRows == 1
MaxFiles == 1

\* The most chats that take part at the same time in the model.
MaxActive == 1

\* The most /start handlers of one user that wait for their reply to be
\* sent at the same time.
MaxWelcoming == 2

\* The most button presses whose handlers wait at the same time for
\* callback.answer() to return, and the most rows table tasks takes while
\* they do.
MaxAnswering == 2
MaxPressRows == 2

\* ------------------------------------------------------------------- texts

NoneVal == <<"None">>

Whitespace == {" ", "\t", "\n"}
Digits == <<"0", "1", "2", "3", "4", "5", "6", "7", "8", "9">>
UpperCs == <<"A", "B", "C", "D", "E", "F", "G", "H", "I", "J", "K", "L", "M",
             "N", "O", "P", "Q", "R", "S", "T", "U", "V", "W", "X", "Y", "Z">>
LowerCs == <<"a", "b", "c", "d", "e", "f", "g", "h", "i", "j", "k", "l", "m",
             "n", "o", "p", "q", "r", "s", "t", "u", "v", "w", "x", "y", "z">>

IsDigitChar(c) == \E i \in DOMAIN Digits : Digits[i] = c
DigitVal(c) == (CHOOSE i \in DOMAIN Digits : Digits[i] = c) - 1

\* str.lower()
LowerChar(c) ==
    IF \E i \in DOMAIN UpperCs : UpperCs[i] = c
    THEN LowerCs[CHOOSE i \in DOMAIN UpperCs : UpperCs[i] = c]
    ELSE c
Lower(s) == [i \in DOMAIN s |-> LowerChar(s[i])]

\* str.strip()
RECURSIVE LStrip(_)
LStrip(s) == IF s # <<>> /\ Head(s) \in Whitespace THEN LStrip(Tail(s)) ELSE s
RECURSIVE RStrip(_)
RStrip(s) ==
    IF s # <<>> /\ s[Len(s)] \in Whitespace
    THEN RStrip(SubSeq(s, 1, Len(s) - 1))
    ELSE s
Strip(s) == RStrip(LStrip(s))

\* str.isdigit(): non-empty and every character a digit
IsDigit(s) == s # <<>> /\ \A i \in DOMAIN s : IsDigitChar(s[i])

\* int() of a digit string
RECURSIVE IntOf(_)
IntOf(s) ==
    IF s = <<>> THEN 0
    ELSE 10 * IntOf(SubSeq(s, 1, Len(s) - 1)) + DigitVal(s[Len(s)])

\* str() of a natural number
RECURSIVE StrOf(_)
StrOf(n) == IF n < 10 THEN <<Digits[n + 1]>> ELSE StrOf(n \div 10) \o <<Digits[(n % 10) + 1]>>

\* s.startswith(p)
StartsWith(s, p) == Len(s) >= Len(p) /\ SubSeq(s, 1, Len(p)) = p

\* The index of the first c in s, 0 when there is none.
IndexOf(s, c) ==
    IF \E i \in DOMAIN s : s[i] = c
    THEN CHOOSE i \in DOMAIN s : s[i] = c /\ \A j \in 1..(i - 1) : s[j] # c
    ELSE 0

\* s.split(':', 1)[1]
AfterColon(s) == SubSeq(s, IndexOf(s, ":") + 1, Len(s))

\* message.text.split()[0]: the first whitespace-delimited word
FirstWord(s) ==
    LET t == LStrip(s)
        ends == {i \in DOMAIN t : t[i] \in Whitespace}
    IN  IF ends = {} THEN t
        ELSE SubSeq(t, 1, (CHOOSE i \in ends : \A j \in ends : i <= j) - 1)

\* ---------------------------------------------------------------- strptime

IsLeap(y) == (y % 4 = 0 /\ y % 100 # 0) \/ y % 400 = 0
DaysIn(y, m) ==
    IF m = 2 THEN (IF IsLeap(y) THEN 29 ELSE 28)
    ELSE IF m \in {4, 6, 9, 11} THEN 30 ELSE 31

\* The ways text s splits as YYYY-m-d<spaces>H:M, each field one or two
\* digits (the year four), as the pattern of "%Y-%m-%d %H:%M" allows.
DueShapes(s) ==
    {sh \in [lm : 1..2, ld : 1..2, ws : 1..Len(s), lh : 1..2, lmi : 1..2] :
        LET pm  == 6
            pd  == pm + sh.lm + 1
            pw  == pd + sh.ld
            ph  == pw + sh.ws
            pmi == ph + sh.lh + 1
        IN  /\ Len(s) = pmi + sh.lmi - 1
            /\ IsDigit(SubSeq(s, 1, 4))
            /\ s[5] = "-"
            /\ IsDigit(SubSeq(s, pm, pm + sh.lm - 1))
            /\ s[pd - 1] = "-"
            /\ IsDigit(SubSeq(s, pd, pd + sh.ld - 1))
            /\ \A i \in pw..(ph - 1) : s[i] \in Whitespace
            /\ IsDigit(SubSeq(s, ph, ph + sh.lh - 1))
            /\ s[pmi - 1] = ":"
            /\ IsDigit(SubSeq(s, pmi, pmi + sh.lmi - 1))}

DueOfShape(s, sh) ==
    LET pm  == 6
        pd  == pm + sh.lm + 1
        ph  == pd + sh.ld + sh.ws
        pmi == ph + sh.lh + 1
    IN  [year   |-> IntOf(SubSeq(s, 1, 4)),
         month  |-> IntOf(SubSeq(s, pm, pm + sh.lm - 1)),
         day    |-> IntOf(SubSeq(s, pd, pd + sh.ld - 1)),
         hour   |-> IntOf(SubSeq(s, ph, ph + sh.lh - 1)),
         minute |-> IntOf(SubSeq(s, pmi, pmi + sh.lmi - 1))]

ValidDue(dt) ==
    /\ dt.year >= 1
    /\ dt.month \in 1..12
    /\ dt.day >= 1 /\ dt.day <= DaysIn(dt.year, dt.month)
    /\ dt.hour \in 0..23
    /\ dt.minute \in 0..59

\* Mutant of StrpTime: the fields are not range-checked.
StrpTime_Unchecked(s) == {DueOfShape(s, sh) : sh \in DueShapes(s)}

\* datetime.datetime.strptime(text, "%Y-%m-%d %H:%M"): the set holding the
\* parsed datetime, empty when strptime raises ValueError.
StrpTime(s) ==
    {dt \in {DueOfShape(s, sh) : sh \in DueShapes(s)} : ValidDue(dt)}

Pad2(n) == <<Digits[(n \div 10) + 1], Digits[(n % 10) + 1]>>
Pad4(n) == Pad2(n \div 100) \o Pad2(n % 100)

\* dt.isoformat() of a datetime with zero seconds
IsoFormat(dt) ==
    Pad4(dt.year) \o <<"-">> \o Pad2(dt.month) \o <<"-">> \o Pad2(dt.day)
        \o <<"T">> \o Pad2(dt.hour) \o <<":">> \o Pad2(dt.minute)
        \o <<":", "0", "0">>

\* ------------------------------------------------------------ the program

\* Telegram ids of the users who talk to the bot (private chats: the chat
\* and the user are the same key of the FSM storage).
Users == {1, 2}

\* The rows of table profiles (read-only for the bot).
Profiles ==
    <<[telegram_id |-> 1, full_name |-> <<"A", "n", "n">>, role |-> "region_manager"],
      [telegram_id |-> 3, full_name |-> <<"B", "o", "b">>, role |-> "junior_manager"],
      [telegram_id |-> 4, full_name |-> <<"b", "o", "b">>, role |-> "team_leader"],
      [telegram_id |-> 5, full_name |-> <<"C", "y">>, role |-> "project_head"],
      [telegram_id |-> 6, full_name |-> <<"D", "i">>, role |-> "intern"],
      [telegram_id |-> 7, full_name |-> <<"E", "d">>, role |-> "junior_manager"]>>

\* Mutant of ROLE_ASSIGNMENT_MAP: a role the table does not hold is treated
\* as the lowest role that assigns.
ROLE_ASSIGNMENT_MAP_Default(role) ==
    CASE role = "project_head"   -> {"team_leader"}
      [] role = "team_leader"    -> {"region_manager"}
      [] role = "junior_manager" -> {}
      [] OTHER                   -> {"junior_manager"}

\* ROLE_ASSIGNMENT_MAP.get(role, [])
ROLE_ASSIGNMENT_MAP(role) ==
    CASE role = "project_head"   -> {"team_leader"}
      [] role = "team_leader"    -> {"region_manager"}
      [] role = "region_manager" -> {"junior_manager"}
      [] role = "junior_manager" -> {}
      [] OTHER                   -> {}

\* The raw FSM states of LeadForm, TaskForm and TaskResultForm; NoState is
\* the state None of a chat with no dialog.
NoState == "None"
LeadStates == {"LeadForm:name", "LeadForm:phone", "LeadForm:email"}
TaskStates == {"TaskForm:title", "TaskForm:client", "TaskForm:due_date",
               "TaskForm:description", "TaskForm:assignee"}
ResultStates == {"TaskResultForm:awaiting_result"}
States == {NoState} \cup LeadStates \cup TaskStates \cup ResultStates

\* FSMContext data: a mapping from keys to values.
EmptyData == [k \in {} |-> NoneVal]
Put(d, k, v) == [x \in (DOMAIN d) \cup {k} |-> IF x = k THEN v ELSE d[x]]
Get(d, k) == IF k \in DOMAIN d THEN d[k] ELSE NoneVal

\* Mutant of OrNone: a lone "-" is kept as the value.
OrNone_KeepsDash(txt) == IF txt # <<>> THEN txt ELSE NoneVal

\* txt if txt and txt != '-' else None
OrNone(txt) == IF txt # <<>> /\ txt # <<"-">> THEN txt ELSE NoneVal

\* ----------------------------------------------------------------- events

TextMsg(t) == [content_type |-> "text", text |-> t, document |-> NoneVal, photo |-> <<>>]
DocumentMsg(f) == [content_type |-> "document", text |-> NoneVal, document |-> f, photo |-> <<>>]
PhotoMsg(fs) == [content_type |-> "photo", text |-> NoneVal, document |-> NoneVal, photo |-> fs]
StickerMsg == [content_type |-> "sticker", text |-> NoneVal, document |-> NoneVal, photo |-> <<>>]

\* The filter commands=[name]: the first word of the text, lower-cased, is
\* "/" followed by the name.
IsCommand(m, name) ==
    /\ m.content_type = "text"
    /\ Lower(FirstWord(m.text)) = <<"/">> \o name

\* The filter Text(equals='cancel', ignore_case=True)
IsCancelText(m) ==
    /\ m.content_type = "text"
    /\ Lower(m.text) = <<"c", "a", "n", "c", "e", "l">>

C_start   == <<"s", "t", "a", "r", "t">>
C_help    == <<"h", "e", "l", "p">>
C_newlead == <<"n", "e", "w", "l", "e", "a", "d">>
C_myleads == <<"m", "y", "l", "e", "a", "d", "s">>
C_newtask == <<"n", "e", "w", "t", "a", "s", "k">>
C_mytasks == <<"m", "y", "t", "a", "s", "k", "s">>
C_cancel  == <<"c", "a", "n", "c", "e", "l">>

\* The message handler aiogram runs: the first one, in the order the
\* decorators register them, whose filters accept the message.  A handler
\* registered without state= accepts only a chat in state None.
MessageHandler(st, m) ==
    CASE st = NoState /\ IsCommand(m, C_start)   -> "send_welcome"
      [] st = NoState /\ IsCommand(m, C_help)    -> "help_command"
      [] st = NoState /\ IsCommand(m, C_newlead) -> "new_lead"
      [] st = "LeadForm:name" /\ m.content_type = "text"  -> "process_lead_name"
      [] st = "LeadForm:phone" /\ m.content_type = "text" -> "process_lead_phone"
      [] st = "LeadForm:email" /\ m.content_type = "text" -> "process_lead_email"
      [] st = NoState /\ IsCommand(m, C_myleads) -> "my_leads"
      [] st = NoState /\ IsCommand(m, C_newtask) -> "new_task"
      [] st = "TaskForm:title" /\ m.content_type = "text"       -> "process_task_title"
      [] st = "TaskForm:client" /\ m.content_type = "text"      -> "process_task_client"
      [] st = "TaskForm:due_date" /\ m.content_type = "text"    -> "process_task_due_date"
      [] st = "TaskForm:description" /\ m.content_type = "text" -> "process_task_description"
      [] st = "TaskForm:assignee" /\ m.content_type = "text"    -> "process_task_assignee"
      [] st = NoState /\ IsCommand(m, C_mytasks) -> "my_tasks"
      [] IsCommand(m, C_cancel) \/ IsCancelText(m) -> "cancel_handler"
      [] st = "TaskResultForm:awaiting_result" -> "process_task_result"
      [] OTHER -> "unhandled"

\* A button press: callback.data is the text.
CallbackMsg(d) == [content_type |-> "callback", text |-> d, document |-> NoneVal, photo |-> <<>>]

D_menu          == <<"m", "e", "n", "u">>
D_mytasks       == <<"m", "y", "t", "a", "s", "k", "s">>
D_newtask       == <<"n", "e", "w", "t", "a", "s", "k">>
D_task          == <<"t", "a", "s", "k", ":">>
D_cancel_action == <<"c", "a", "n", "c", "e", "l", "_", "a", "c", "t", "i", "o", "n">>
D_assign        == <<"a", "s", "s", "i", "g", "n", ":">>
D_self          == <<"s", "e", "l", "f">>

\* Mutant of CallbackHandler: handle_assign_callback is registered for every
\* state (state='*').
CallbackHandler_AssignAnywhere(st, d) ==
    CASE st = NoState /\ d = D_menu             -> "on_menu"
      [] st = NoState /\ d = D_mytasks          -> "on_mytasks"
      [] st = NoState /\ d = D_newtask          -> "on_newtask"
      [] st = NoState /\ StartsWith(d, D_task)  -> "on_select_task"
      [] d = D_cancel_action                    -> "on_cancel_action"
      [] StartsWith(d, D_assign)                -> "handle_assign_callback"
      [] OTHER -> "unhandled"

\* The callback query handler aiogram runs, in registration order; the
\* handlers registered without state= accept only a chat in state None.
CallbackHandler(st, d) ==
    CASE st = NoState /\ d = D_menu             -> "on_menu"
      [] st = NoState /\ d = D_mytasks          -> "on_mytasks"
      [] st = NoState /\ d = D_newtask          -> "on_newtask"
      [] st = NoState /\ StartsWith(d, D_task)  -> "on_select_task"
      [] d = D_cancel_action                    -> "on_cancel_action"
      [] st = "TaskForm:assignee" /\ StartsWith(d, D_assign) -> "handle_assign_callback"
      [] OTHER -> "unhandled"

Handler(st, m) ==
    IF m.content_type = "callback" THEN CallbackHandler(st, m.text)
    ELSE MessageHandler(st, m)

\* ----------------------------------------------------------------- inputs

T_newlead  == <<"/", "n", "e", "w", "l", "e", "a", "d">>
T_newtask  == <<"/", "n", "e", "w", "t", "a", "s", "k">>
T_mytasks  == <<"/", "m", "y", "t", "a", "s", "k", "s">>
T_slcancel == <<"/", "c", "a", "n", "c", "e", "l">>
T_cancel   == <<"c", "a", "n", "c", "e", "l">>
T_Cancel   == <<"C", "a", "n", "c", "e", "L">>
T_Anna     == <<" ", "A", "n", "n", "a", " ">>
T_phone    == <<"+", "1", "2", " ">>
T_email    == <<" ", "a", "@", "b">>
T_title    == <<" ", "F", "i", "x", " ", "b", "u", "g", "\n">>
T_dash     == <<"-">>
T_dashsp   == <<" ", "-", " ">>
T_Acme     == <<" ", "A", "c", "m", "e">>
T_note     == <<"n", "o", "t", "e", " ">>
T_due      == <<"2", "0", "2", "5", "-", "0", "6", "-", "0", "1", " ", "1", "2", ":", "0", "0">>
T_dueBad   == <<"3", "1", "-", "1", "2", "-", "2", "0", "2", "5">>
T_dueFeb30 == <<"2", "0", "2", "5", "-", "0", "2", "-", "3", "0", " ", "1", "0", ":", "0", "0">>
T_zero     == <<"0">>
T_cy       == <<"c", "Y">>
T_bob      == <<"B", "O", "B">>
T_zed      == <<"z", "e", "d">>
T_done     == <<"d", "o", "n", "e", " ">>

T_five     == <<"5">>

\* A title of blanks alone.
T_blank    == <<" ">>

\* /start of a user whose Telegram username is name at that time.
T_start    == <<"/", "s", "t", "a", "r", "t">>
Usernames  == {<<"a">>, <<"b">>}
StartMsg(name) ==
    [content_type |-> "text", text |-> T_start, document |-> NoneVal, photo |-> <<>>,
     username |-> name]

\* The messages the model sends to the chat of user u in state st.
Messages(st, u) ==
    CASE st = NoState ->
            {TextMsg(t) : t \in {T_newlead, T_newtask, T_mytasks, T_slcancel, T_Cancel}}
      [] st = "LeadForm:name"  -> {TextMsg(T_Anna), TextMsg(T_cancel), StickerMsg}
      [] st = "LeadForm:phone" -> {TextMsg(T_phone)}
      [] st = "LeadForm:email" -> {TextMsg(T_email)}
      [] st = "TaskForm:title" -> {TextMsg(T_title)}
      [] st = "TaskForm:client" -> {TextMsg(T_dash), TextMsg(T_Acme)}
      [] st = "TaskForm:due_date" ->
            {TextMsg(t) : t \in {T_due, T_dueBad, T_dueFeb30, T_slcancel}}
      [] st = "TaskForm:description" -> {TextMsg(T_dashsp), TextMsg(T_note)}
      [] st = "TaskForm:assignee" ->
            {TextMsg(t) : t \in {T_zero, <<" ">> \o StrOf(u), T_five, T_cy, T_bob,
                                 T_zed, T_Cancel}}
      [] st = "TaskResultForm:awaiting_result" ->
            {TextMsg(T_done), TextMsg(T_cancel), TextMsg(T_slcancel),
             DocumentMsg(<<"f", "1">>), PhotoMsg(<<<<"p", "1">>, <<"p", "2">>>>),
             StickerMsg}

\* The buttons the model presses in a chat in state st.
Callbacks(st) ==
    CASE st = NoState ->
            {CallbackMsg(d) : d \in {D_menu, D_mytasks, D_newtask, D_cancel_action,
                                     D_task \o <<"1">>, D_task \o <<"9">>,
                                     D_assign \o D_self}}
      [] st = "TaskForm:assignee" ->
            {CallbackMsg(d) : d \in {D_menu, D_cancel_action, D_assign \o D_self,
                                     D_assign \o <<"5">>, D_assign \o <<"x">>}}
      [] st = "TaskResultForm:awaiting_result" ->
            {CallbackMsg(d) : d \in {D_menu, D_mytasks, D_newtask, D_cancel_action,
                                     D_task \o <<"1">>}}
      [] OTHER ->
            {CallbackMsg(d) : d \in {D_menu, D_cancel_action}}

Offered(st, u) == Messages(st, u) \cup Callbacks(st)

\* The handler of every input of the model in every state, tabulated once.
AllInputs ==
    UNION {Offered(st, u) : st \in States, u \in Users}
        \cup {TextMsg(T_blank)} \cup {StartMsg(name) : name \in Usernames}
HandlerTable == [st \in States |-> [m \in AllInputs |-> Handler(st, m)]]
Dispatch(st, m) == HandlerTable[st][m]

\* ------------------------------------------------------------------- state

\* The inputs user u sends now.  The model lets at most MaxActive chats
\* take part at a time: a chat in a dialog, or any chat while fewer than
\* MaxActive chats are in one.
Active == {v \in Users : state[v] # NoState}
Inputs(u) ==
    IF u \in Active \/ Cardinality(Active) < MaxActive
    THEN Offered(state[u], u)
    ELSE {}

\* The event handled last: the sender, the message or button press, the
\* handler that ran, the state of the chat before it, whether the handler
\* returned (ok) or raised, and what the store answered.
Event(u, m, h, ok, sok, lok) ==
    [user |-> u, msg |-> m, handler |-> h, pre |-> state[u], ok |-> ok,
     store_ok |-> sok, lookup_ok |-> lok]

NoEvent ==
    [user |-> 0, msg |-> StickerMsg, handler |-> "none", pre |-> NoState, ok |-> TRUE,
     store_ok |-> TRUE, lookup_ok |-> TRUE]

Init ==
    /\ state = [u \in Users |-> NoState]
    /\ data = [u \in Users |-> EmptyData]
    /\ leads = <<>>
    /\ tasks = <<>>
    /\ task_files = <<>>
    /\ out = <<>>
    /\ lookups = 0
    /\ ev = NoEvent
    /\ users = <<>>
    /\ welcoming = [u \in Users |-> 0]
    /\ writes = <<>>
    /\ answering = [u \in Users |-> <<>>]

\* Mutant of Finish: the state and the data of every chat are reset.
Finish_AllChats(u) ==
    /\ state' = [v \in Users |-> NoState]
    /\ data' = [v \in Users |-> EmptyData]

\* Mutant of Finish: the state is reset and the data is kept.
Finish_KeepsData(u) ==
    /\ state' = [state EXCEPT ![u] = NoState]
    /\ UNCHANGED data

\* state.finish(): reset the state and the data of the chat
Finish(u) ==
    /\ state' = [state EXCEPT ![u] = NoState]
    /\ data' = [data EXCEPT ![u] = EmptyData]

\* A handler that calls no insert and no update of the tables leads, tasks
\* and task_files; writes holds the calls of the event handled last, in
\* the order they were made.
StoreUnchanged ==
    /\ UNCHANGED <<leads, tasks, task_files>>
    /\ writes' = <<>>

\* A handler other than send_welcome, run with no other event of the chat
\* handled in between: table users and the handlers waiting at an await are
\* not touched.
UsersUnchanged == UNCHANGED <<users, welcoming, answering>>

\* No handler accepts the event: aiogram drops it.
unhandled(u, m) ==
    /\ Dispatch(state[u], m) = "unhandled"
    /\ ev' = Event(u, m, "unhandled", TRUE, TRUE, TRUE)
    /\ out' = <<>>
    /\ lookups' = 0
    /\ UNCHANGED <<state, data>>
    /\ StoreUnchanged

\* ------------------------------------------------------------ lead capture

new_lead(u, m) ==
    /\ Dispatch(state[u], m) = "new_lead"
    /\ state' = [state EXCEPT ![u] = "LeadForm:name"]
    /\ UNCHANGED data
    /\ ev' = Event(u, m, "new_lead", TRUE, TRUE, TRUE)
    /\ out' = <<"ask_lead_name">>
    /\ lookups' = 0
    /\ StoreUnchanged

process_lead_name(u, m) ==
    /\ Dispatch(state[u], m) = "process_lead_name"
    /\ data' = [data EXCEPT ![u] = Put(@, "name", Strip(m.text))]
    /\ state' = [state EXCEPT ![u] = "LeadForm:phone"]
    /\ ev' = Event(u, m, "process_lead_name", TRUE, TRUE, TRUE)
    /\ out' = <<"ask_lead_phone">>
    /\ lookups' = 0
    /\ StoreUnchanged

process_lead_phone(u, m) ==
    /\ Dispatch(state[u], m) = "process_lead_phone"
    /\ data' = [data EXCEPT ![u] = Put(@, "phone", Strip(m.text))]
    /\ state' = [state EXCEPT ![u] = "LeadForm:email"]
    /\ ev' = Event(u, m, "process_lead_phone", TRUE, TRUE, TRUE)
    /\ out' = <<"ask_lead_email">>
    /\ lookups' = 0
    /\ StoreUnchanged

\* Mutant of LeadRow: phone and email change places.
LeadRow_Swapped(u, d) ==
    [telegram_id |-> u, name |-> d["name"], phone |-> d["email"], email |-> d["phone"]]

\* The row process_lead_email inserts into leads.
LeadRow(u, d) ==
    [telegram_id |-> u, name |-> d["name"], phone |-> d["phone"], email |-> d["email"]]

\* Mutant of process_lead_email: an insert that raises is tried once more.
process_lead_email_Retry(u, m, store_ok) ==
    /\ Dispatch(state[u], m) = "process_lead_email"
    /\ {"name", "phone"} \subseteq DOMAIN data[u]
    /\ store_ok => Len(leads) + Len(tasks) < MaxRows
    /\ LET d == Put(data[u], "email", Strip(m.text))
       IN  IF store_ok
           THEN /\ leads' = Append(leads, LeadRow(u, d))
                /\ Finish(u)
                /\ out' = <<"lead_added">>
                /\ writes' = <<"leads.insert">>
           ELSE /\ UNCHANGED <<leads, state, data>>
                /\ out' = <<>>
                /\ writes' = <<"leads.insert", "leads.insert">>
    /\ ev' = Event(u, m, "process_lead_email", store_ok, store_ok, TRUE)
    /\ lookups' = 0
    /\ UNCHANGED <<tasks, task_files>>

\* The insert runs inside "async with state.proxy()": when it raises, the
\* proxy is not saved, the state is not finished and nothing is sent.
process_lead_email(u, m, store_ok) ==
    /\ Dispatch(state[u], m) = "process_lead_email"
    /\ {"name", "phone"} \subseteq DOMAIN data[u]
    /\ store_ok => Len(leads) + Len(tasks) < MaxRows
    /\ LET d == Put(data[u], "email", Strip(m.text))
       IN  IF store_ok
           THEN /\ leads' = Append(leads, LeadRow(u, d))
                /\ Finish(u)
                /\ out' = <<"lead_added">>
           ELSE /\ UNCHANGED <<leads, state, data>>
                /\ out' = <<>>
    /\ ev' = Event(u, m, "process_lead_email", store_ok, store_ok, TRUE)
    /\ writes' = <<"leads.insert">>
    /\ lookups' = 0
    /\ UNCHANGED <<tasks, task_files>>

\* ----------------------------------------------------------- task creation

new_task(u, m) ==
    /\ Dispatch(state[u], m) = "new_task"
    /\ state' = [state EXCEPT ![u] = "TaskForm:title"]
    /\ UNCHANGED data
    /\ ev' = Event(u, m, "new_task", TRUE, TRUE, TRUE)
    /\ out' = <<"ask_title">>
    /\ lookups' = 0
    /\ StoreUnchanged

process_task_title(u, m) ==
    /\ Dispatch(state[u], m) = "process_task_title"
    /\ data' = [data EXCEPT ![u] = Put(@, "title", Strip(m.text))]
    /\ state' = [state EXCEPT ![u] = "TaskForm:client"]
    /\ ev' = Event(u, m, "process_task_title", TRUE, TRUE, TRUE)
    /\ out' = <<"ask_client">>
    /\ lookups' = 0
    /\ StoreUnchanged

process_task_client(u, m) ==
    /\ Dispatch(state[u], m) = "process_task_client"
    /\ data' = [data EXCEPT ![u] = Put(@, "client", OrNone(Strip(m.text)))]
    /\ state' = [state EXCEPT ![u] = "TaskForm:due_date"]
    /\ ev' = Event(u, m, "process_task_client", TRUE, TRUE, TRUE)
    /\ out' = <<"ask_due">>
    /\ lookups' = 0
    /\ StoreUnchanged

process_task_due_date(u, m) ==
    /\ Dispatch(state[u], m) = "process_task_due_date"
    /\ LET parsed == StrpTime(Strip(m.text))
       IN  IF parsed = {}
           THEN /\ UNCHANGED <<state, data>>
                /\ out' = <<"due_format_error">>
           ELSE /\ data' = [data EXCEPT ![u] =
                        Put(@, "due_date", IsoFormat(CHOOSE dt \in parsed : TRUE))]
                /\ state' = [state EXCEPT ![u] = "TaskForm:description"]
                /\ out' = <<"ask_description">>
    /\ ev' = Event(u, m, "process_task_due_date", TRUE, TRUE, TRUE)
    /\ lookups' = 0
    /\ StoreUnchanged

\* The role prompt_for_assignee reads for the requester: None when the
\* lookup of the requester's profile fails or finds no row.
AssignerRole(u, lookup_ok) ==
    IF lookup_ok /\ \E i \in DOMAIN Profiles : Profiles[i].telegram_id = u
    THEN Profiles[CHOOSE i \in DOMAIN Profiles : Profiles[i].telegram_id = u].role
    ELSE "None"

\* The profile lookups prompt_for_assignee issues: the requester's role,
\* then the profiles of the allowed roles when there are any.
PromptLookups(u, lookup_ok) ==
    IF ROLE_ASSIGNMENT_MAP(AssignerRole(u, lookup_ok)) = {} THEN 1 ELSE 2

\* Mutant of AssigneeButtons: every profile but the requester's own gets a
\* button, whatever its role.
AssigneeButtons_AnyRole(u, role_ok, list_ok) ==
    LET notMe(p) == p.telegram_id # u
        others == IF list_ok THEN SelectSeq(Profiles, notMe) ELSE <<>>
    IN  <<"assign:self">>
            \o [i \in DOMAIN others |-> "assign:" \o ToString(others[i].telegram_id)]

\* The callback data of the keyboard prompt_for_assignee sends, top to
\* bottom: assign:self, then a button for every profile of an allowed role
\* but the requester's own.  A lookup that raises leaves the role None, or
\* the list empty.
AssigneeButtons(u, role_ok, list_ok) ==
    LET allowed == ROLE_ASSIGNMENT_MAP(AssignerRole(u, role_ok))
        inRole(p) == p.role \in allowed
        assignees == IF allowed # {} /\ list_ok THEN SelectSeq(Profiles, inRole) ELSE <<>>
        notMe(p) == p.telegram_id # u
        others == SelectSeq(assignees, notMe)
    IN  <<"assign:self">>
            \o [i \in DOMAIN others |-> "assign:" \o ToString(others[i].telegram_id)]

PromptReply(u, role_ok, list_ok) ==
    <<"choose_assignee">> \o AssigneeButtons(u, role_ok, list_ok)

process_task_description(u, m, lookup_ok, list_ok) ==
    /\ Dispatch(state[u], m) = "process_task_description"
    /\ data' = [data EXCEPT ![u] = Put(@, "description", OrNone(Strip(m.text)))]
    /\ state' = [state EXCEPT ![u] = "TaskForm:assignee"]
    /\ ev' = Event(u, m, "process_task_description", TRUE, list_ok, lookup_ok)
    /\ out' = PromptReply(u, lookup_ok, list_ok)
    /\ lookups' = PromptLookups(u, lookup_ok)
    /\ StoreUnchanged

\* SQL ILIKE: "%" matches any run of characters, "_" any one character,
\* letters match without regard to case.
RECURSIVE Like(_, _)
Like(s, p) ==
    IF p = <<>> THEN s = <<>>
    ELSE IF Head(p) = "%" THEN Like(s, Tail(p)) \/ (s # <<>> /\ Like(Tail(s), p))
    ELSE /\ s # <<>>
         /\ (Head(p) = "_" \/ Head(p) = Head(s))
         /\ Like(Tail(s), Tail(p))
ILike(s, p) == Like(Lower(s), Lower(p))

\* profiles.select(...).ilike("full_name", text): no candidate when the
\* lookup raises.
Candidates(text, lookup_ok) ==
    IF lookup_ok
    THEN SelectSeq(Profiles, LAMBDA r : ILike(r.full_name, text))
    ELSE <<>>

\* Whether process_task_assignee takes the text for a Telegram id.
IsNumericInput(text) == IsDigit(text) \/ text = <<"0">>

\* Mutant of ResolveAssignee: the first candidate is taken when several
\* profiles match.
ResolveAssignee_FirstCandidate(u, text, lookup_ok) ==
    IF IsNumericInput(text)
    THEN IF text # <<>> /\ text # <<"0">> /\ text # <<"-">>
         THEN {IntOf(text)}
         ELSE {u}
    ELSE LET candidates == Candidates(text, lookup_ok)
         IN  IF Len(candidates) >= 1 THEN {candidates[1].telegram_id} ELSE {}

\* Mutant of ResolveAssignee: "0" is taken for a Telegram id like any
\* other number.
ResolveAssignee_ZeroIsAnId(u, text, lookup_ok) ==
    IF IsNumericInput(text)
    THEN {IntOf(text)}
    ELSE LET candidates == Candidates(text, lookup_ok)
         IN  IF Len(candidates) = 1 THEN {candidates[1].telegram_id} ELSE {}

\* The assignee process_task_assignee resolves from the stripped text: the
\* set holding the id, empty for None.
ResolveAssignee(u, text, lookup_ok) ==
    IF IsNumericInput(text)
    THEN IF text # <<>> /\ text # <<"0">> /\ text # <<"-">>
         THEN {IntOf(text)}
         ELSE {u}
    ELSE LET candidates == Candidates(text, lookup_ok)
         IN  IF Len(candidates) = 1 THEN {candidates[1].telegram_id} ELSE {}

\* The two status texts the handlers store (Russian literals in the
\* source), named by their meaning.
STATUS_IN_PROGRESS == "in progress"
STATUS_PENDING_REVIEW == "result pending review"

\* The row the two assignee handlers insert into tasks; the store gives
\* the id.
TaskRow(u, d, assignee_id) ==
    [id |-> Len(tasks) + 1,
     title |-> Get(d, "title"),
     client |-> Get(d, "client"),
     due_date |-> Get(d, "due_date"),
     description |-> Get(d, "description"),
     status |-> STATUS_IN_PROGRESS,
     assigner_telegram_id |-> u,
     assignee_telegram_id |-> assignee_id,
     result |-> NoneVal]

process_task_assignee(u, m, lookup_ok, store_ok) ==
    /\ Dispatch(state[u], m) = "process_task_assignee"
    /\ store_ok => Len(leads) + Len(tasks) < MaxRows
    /\ LET text == Strip(m.text)
           resolved == ResolveAssignee(u, text, lookup_ok)
       IN  /\ lookups' = IF IsNumericInput(text) THEN 0 ELSE 1
           /\ ev' = Event(u, m, "process_task_assignee", resolved = {} \/ store_ok,
                          resolved = {} \/ store_ok,
                          IsNumericInput(text) \/ lookup_ok)
           /\ writes' = IF resolved = {} THEN <<>> ELSE <<"tasks.insert">>
           /\ IF resolved = {}
              THEN /\ UNCHANGED <<state, data, tasks>>
                   /\ out' = <<"assignee_unresolved">>
              ELSE IF store_ok
              THEN /\ tasks' = Append(tasks,
                                   TaskRow(u, data[u], CHOOSE a \in resolved : TRUE))
                   /\ Finish(u)
                   /\ out' = <<"task_added">>
              ELSE /\ UNCHANGED <<state, data, tasks>>
                   /\ out' = <<>>
    /\ UNCHANGED <<leads, task_files>>

\* The assignee handle_assign_callback takes from the button's data.
AssigneeOfCode(u, code) ==
    IF code = D_self THEN u
    ELSE IF IsDigit(code) THEN IntOf(code)
    ELSE u

\* Mutant of handle_assign_callback: the dialog is finished before the
\* insert, as on_mytasks and on_select_task finish it before their queries.
handle_assign_callback_FinishFirst(u, m, store_ok) ==
    /\ Dispatch(state[u], m) = "handle_assign_callback"
    /\ store_ok => Len(leads) + Len(tasks) < MaxRows
    /\ Finish(u)
    /\ IF store_ok
       THEN /\ tasks' = Append(tasks,
                            TaskRow(u, data[u], AssigneeOfCode(u, AfterColon(m.text))))
            /\ out' = <<"answer", "edit_markup", "task_added">>
       ELSE /\ UNCHANGED tasks
            /\ out' = <<"answer">>
    /\ ev' = Event(u, m, "handle_assign_callback", store_ok, store_ok, TRUE)
    /\ writes' = <<"tasks.insert">>
    /\ lookups' = 0
    /\ UNCHANGED <<leads, task_files>>

handle_assign_callback(u, m, store_ok) ==
    /\ Dispatch(state[u], m) = "handle_assign_callback"
    /\ store_ok => Len(leads) + Len(tasks) < MaxRows
    /\ IF store_ok
       THEN /\ tasks' = Append(tasks,
                            TaskRow(u, data[u], AssigneeOfCode(u, AfterColon(m.text))))
            /\ Finish(u)
            /\ out' = <<"answer", "edit_markup", "task_added">>
       ELSE /\ UNCHANGED <<state, data, tasks>>
            /\ out' = <<"answer">>
    /\ ev' = Event(u, m, "handle_assign_callback", store_ok, store_ok, TRUE)
    /\ writes' = <<"tasks.insert">>
    /\ lookups' = 0
    /\ UNCHANGED <<leads, task_files>>

\* ------------------------------------------------------------------ cancel

\* Mutant of cancel_handler: no early return when no dialog is active.
cancel_handler_Unguarded(u, m) ==
    /\ Dispatch(state[u], m) = "cancel_handler"
    /\ Finish(u)
    /\ out' = <<"cancelled">>
    /\ ev' = Event(u, m, "cancel_handler", TRUE, TRUE, TRUE)
    /\ lookups' = 0
    /\ StoreUnchanged

cancel_handler(u, m) ==
    /\ Dispatch(state[u], m) = "cancel_handler"
    /\ IF state[u] = NoState
       THEN /\ UNCHANGED <<state, data>>
            /\ out' = <<>>
       ELSE /\ Finish(u)
            /\ out' = <<"cancelled">>
    /\ ev' = Event(u, m, "cancel_handler", TRUE, TRUE, TRUE)
    /\ lookups' = 0
    /\ StoreUnchanged

\* --------------------------------------------------------------- task list

\* ord() of a character of the model's texts.
Ord(c) ==
    CASE c = "\t" -> 9
      [] c = "\n" -> 10
      [] c = " " -> 32
      [] c = "+" -> 43
      [] c = "-" -> 45
      [] c = "/" -> 47
      [] IsDigitChar(c) -> 48 + DigitVal(c)
      [] c = ":" -> 58
      [] c = "@" -> 64
      [] \E i \in DOMAIN UpperCs : UpperCs[i] = c
            -> 64 + (CHOOSE i \in DOMAIN UpperCs : UpperCs[i] = c)
      [] c = "[" -> 91
      [] c = "]" -> 93
      [] \E i \in DOMAIN LowerCs : LowerCs[i] = c
            -> 96 + (CHOOSE i \in DOMAIN LowerCs : LowerCs[i] = c)

\* a < b of two str: the first differing character decides, a proper
\* prefix is smaller.
RECURSIVE StrLess(_, _)
StrLess(a, b) ==
    IF b = <<>> THEN FALSE
    ELSE IF a = <<>> THEN TRUE
    ELSE IF Head(a) = Head(b) THEN StrLess(Tail(a), Tail(b))
    ELSE Ord(Head(a)) < Ord(Head(b))

\* The columns both task queries of the list select.
Selected(t) ==
    [id |-> t.id, title |-> t.title, due_date |-> t.due_date, status |-> t.status,
     assignee_telegram_id |-> t.assignee_telegram_id]

\* tasks.select(...).eq("assigner_telegram_id", u), in the order of the
\* table.
AssignerRows(u) ==
    LET mine(t) == t.assigner_telegram_id = u
        rows == SelectSeq(tasks, mine)
    IN  [i \in DOMAIN rows |-> Selected(rows[i])]

\* Mutant of AssigneeRows: the second query is answered after a result was
\* attached to the tasks user u assigned to herself, the first one before.
AssigneeRows_AfterUpdate(u) ==
    LET mine(t) == t.assignee_telegram_id = u
        rows == SelectSeq(tasks, mine)
    IN  [i \in DOMAIN rows |->
            IF rows[i].assigner_telegram_id = u
            THEN Selected([rows[i] EXCEPT !.status = STATUS_PENDING_REVIEW])
            ELSE Selected(rows[i])]

\* tasks.select(...).eq("assignee_telegram_id", u), in the order of the
\* table.
AssigneeRows(u) ==
    LET mine(t) == t.assignee_telegram_id = u
        rows == SelectSeq(tasks, mine)
    IN  [i \in DOMAIN rows |-> Selected(rows[i])]

\* for t in more: if t not in acc: acc.append(t)
RECURSIVE Extend(_, _)
Extend(acc, more) ==
    IF more = <<>> THEN acc
    ELSE Extend(IF \E i \in DOMAIN acc : acc[i] = Head(more)
                THEN acc
                ELSE Append(acc, Head(more)),
                Tail(more))

\* Mutant of SortKey: a task without due date gets the greatest key.
SortKey_NoneLast(t) ==
    IF t.due_date = NoneVal \/ t.due_date = <<>> THEN <<"z">> ELSE t.due_date

\* x.get('due_date') or ''
SortKey(t) == IF t.due_date = NoneVal \/ t.due_date = <<>> THEN <<>> ELSE t.due_date

\* list.sort(key=...): stable, ascending by key.  Insert puts t behind
\* every element whose key is not greater.
RECURSIVE Insert(_, _)
Insert(s, t) ==
    IF s = <<>> THEN <<t>>
    ELSE IF StrLess(SortKey(t), SortKey(Head(s))) THEN <<t>> \o s
    ELSE <<Head(s)>> \o Insert(Tail(s), t)
RECURSIVE Sort(_)
Sort(s) ==
    IF s = <<>> THEN <<>>
    ELSE Insert(Sort(SubSeq(s, 1, Len(s) - 1)), s[Len(s)])

\* Mutant of ListTasks: the rows of the second query are appended without
\* the membership test.
ListTasks_NoDedup(u) == Sort(AssignerRows(u) \o AssigneeRows(u))

\* The list my_tasks, on_mytasks and on_cancel_action build from the two
\* queries.
ListTasks(u) == Sort(Extend(AssignerRows(u), AssigneeRows(u)))

\* Whether either task query of the list finds a row for user u.
HasTasks(u) ==
    \E i \in DOMAIN tasks :
        tasks[i].assigner_telegram_id = u \/ tasks[i].assignee_telegram_id = u

TaskListText(u) == IF HasTasks(u) THEN "tasks_list" ELSE "no_tasks"

\* The callback data of the buttons, top to bottom.
get_main_menu == <<"mytasks", "newtask">>
build_tasks_keyboard(list) ==
    <<"newtask">> \o [i \in DOMAIN list |-> "task:" \o ToString(list[i].id)]
        \o <<"menu">>

\* The reply that shows the list of user u: its text, then its keyboard.
TaskListReply(u) == <<TaskListText(u)>> \o build_tasks_keyboard(ListTasks(u))
TaskListError == <<"tasks_error">> \o get_main_menu

my_tasks(u, m, query_ok) ==
    /\ Dispatch(state[u], m) = "my_tasks"
    /\ ev' = Event(u, m, "my_tasks", TRUE, query_ok, TRUE)
    /\ out' = IF query_ok THEN TaskListReply(u) ELSE TaskListError
    /\ lookups' = 0
    /\ UNCHANGED <<state, data>>
    /\ StoreUnchanged

\* ----------------------------------------------------------- attach result

\* "[Файл: <file_id>]"
FilePayload(file_id) == <<"[", "F", "i", "l", "e", ":", " ">> \o file_id \o <<"]">>

\* Mutant of UpdateTask: the result is stored and the status is left.
UpdateTask_KeepsStatus(task_id, result_text) ==
    [i \in DOMAIN tasks |->
        IF IsDigit(task_id) /\ tasks[i].id = IntOf(task_id)
        THEN [tasks[i] EXCEPT !.result = result_text]
        ELSE tasks[i]]

\* tasks.update({result, status, updated_at}).eq("id", task_id)
UpdateTask(task_id, result_text) ==
    [i \in DOMAIN tasks |->
        IF IsDigit(task_id) /\ tasks[i].id = IntOf(task_id)
        THEN [tasks[i] EXCEPT !.result = result_text, !.status = STATUS_PENDING_REVIEW]
        ELSE tasks[i]]

\* Mutant of AcceptedContent: every kind of message is taken for a result.
AcceptedContent_Any(m) == TRUE

\* The content types process_task_result takes for a result.
AcceptedContent(m) == m.content_type \in {"text", "document", "photo"}

process_task_result(u, m, store_ok, file_ok) ==
    /\ Dispatch(state[u], m) = "process_task_result"
    /\ lookups' = 0
    /\ UNCHANGED leads
    /\ LET task_id == Get(data[u], "task_id")
           file_id == IF m.content_type = "document" THEN m.document
                      ELSE IF m.content_type = "photo" THEN m.photo[Len(m.photo)]
                      ELSE NoneVal
           result_text == IF m.content_type = "text" THEN Strip(m.text)
                          ELSE FilePayload(file_id)
       IN  IF task_id = NoneVal \/ task_id = <<>>
           THEN /\ Finish(u)
                /\ out' = <<"unknown_task">>
                /\ ev' = Event(u, m, "process_task_result", TRUE, TRUE, TRUE)
                /\ writes' = <<>>
                /\ UNCHANGED <<tasks, task_files>>
           ELSE IF ~AcceptedContent(m)
           THEN /\ UNCHANGED <<state, data, tasks, task_files>>
                /\ out' = <<"ask_text_or_file">>
                /\ writes' = <<>>
                /\ ev' = Event(u, m, "process_task_result", TRUE, TRUE, TRUE)
           ELSE IF ~store_ok
           THEN /\ UNCHANGED <<state, data, tasks, task_files>>
                /\ out' = <<>>
                /\ writes' = <<"tasks.update">>
                /\ ev' = Event(u, m, "process_task_result", FALSE, FALSE, TRUE)
           ELSE IF file_id # NoneVal /\ ~file_ok
           THEN /\ tasks' = UpdateTask(task_id, result_text)
                /\ UNCHANGED <<state, data, task_files>>
                /\ out' = <<>>
                /\ writes' = <<"tasks.update", "task_files.insert">>
                /\ ev' = Event(u, m, "process_task_result", FALSE, FALSE, TRUE)
           ELSE /\ tasks' = UpdateTask(task_id, result_text)
                /\ IF file_id # NoneVal
                   THEN /\ Len(task_files) < MaxFiles
                        /\ task_files' = Append(task_files,
                                [task_id |-> task_id, file_url |-> file_id])
                   ELSE UNCHANGED task_files
                /\ writes' = IF file_id # NoneVal
                             THEN <<"tasks.update", "task_files.insert">>
                             ELSE <<"tasks.update">>
                /\ Finish(u)
                /\ out' = <<"result_attached">>
                /\ ev' = Event(u, m, "process_task_result", TRUE, TRUE, TRUE)

\* ----------------------------------------------------------------- buttons

on_menu(u, m) ==
    /\ Dispatch(state[u], m) = "on_menu"
    /\ Finish(u)
    /\ ev' = Event(u, m, "on_menu", TRUE, TRUE, TRUE)
    /\ out' = <<"answer", "edit_markup", "main_menu">>
    /\ lookups' = 0
    /\ StoreUnchanged

on_mytasks(u, m, query_ok) ==
    /\ Dispatch(state[u], m) = "on_mytasks"
    /\ Finish(u)
    /\ ev' = Event(u, m, "on_mytasks", TRUE, query_ok, TRUE)
    /\ out' = <<"answer">> \o (IF query_ok THEN TaskListReply(u) ELSE TaskListError)
    /\ lookups' = 0
    /\ StoreUnchanged

on_newtask(u, m) ==
    /\ Dispatch(state[u], m) = "on_newtask"
    /\ state' = [state EXCEPT ![u] = "TaskForm:title"]
    /\ data' = [data EXCEPT ![u] = EmptyData]
    /\ ev' = Event(u, m, "on_newtask", TRUE, TRUE, TRUE)
    /\ out' = <<"answer", "ask_title">>
    /\ lookups' = 0
    /\ StoreUnchanged

\* Mutant of TaskFound: the selection goes on without a row.
TaskFound_Any(task_id, query_ok) == TRUE

\* tasks.select(...).eq("id", task_id).single(): whether a row comes back.
TaskFound(task_id, query_ok) ==
    /\ query_ok
    /\ IsDigit(task_id)
    /\ \E i \in DOMAIN tasks : tasks[i].id = IntOf(task_id)

on_select_task(u, m, query_ok) ==
    /\ Dispatch(state[u], m) = "on_select_task"
    /\ LET task_id == AfterColon(m.text)
       IN  IF TaskFound(task_id, query_ok)
           THEN /\ data' = [data EXCEPT ![u] = Put(EmptyData, "task_id", task_id)]
                /\ state' = [state EXCEPT ![u] = "TaskResultForm:awaiting_result"]
                /\ out' = <<"answer", "ask_result">>
           ELSE /\ Finish(u)
                /\ out' = <<"answer", "task_not_found">>
    /\ ev' = Event(u, m, "on_select_task", TRUE, query_ok, TRUE)
    /\ lookups' = 0
    /\ StoreUnchanged

\* The queries of on_cancel_action are not guarded: when one raises, the
\* state is already finished and no list is sent.
on_cancel_action(u, m, query_ok) ==
    /\ Dispatch(state[u], m) = "on_cancel_action"
    /\ Finish(u)
    /\ ev' = Event(u, m, "on_cancel_action", query_ok, query_ok, TRUE)
    /\ out' = IF query_ok THEN <<"answer", "edit_markup">> \o TaskListReply(u)
              ELSE <<"answer", "edit_markup">>
    /\ lookups' = 0
    /\ StoreUnchanged

Next ==
    \/ \E u \in Users : \E m \in Inputs(u) : unhandled(u, m) /\ UsersUnchanged
    \/ \E u \in Users : \E m \in Inputs(u) : new_lead(u, m) /\ UsersUnchanged
    \/ \E u \in Users : \E m \in Inputs(u) : process_lead_name(u, m) /\ UsersUnchanged
    \/ \E u \in Users : \E m \in Inputs(u) : process_lead_phone(u, m) /\ UsersUnchanged
    \/ \E u \in Users : \E m \in Inputs(u) : \E store_ok \in BOOLEAN :
            process_lead_email(u, m, store_ok) /\ UsersUnchanged
    \/ \E u \in Users : \E m \in Inputs(u) : new_task(u, m) /\ UsersUnchanged
    \/ \E u \in Users : \E m \in Inputs(u) : process_task_title(u, m) /\ UsersUnchanged
    \/ \E u \in Users : \E m \in Inputs(u) : process_task_client(u, m) /\ UsersUnchanged
    \/ \E u \in Users : \E m \in Inputs(u) : process_task_due_date(u, m) /\ UsersUnchanged
    \/ \E u \in Users : \E m \in Inputs(u) :
            \E lookup_ok \in BOOLEAN, list_ok \in BOOLEAN :
                process_task_description(u, m, lookup_ok, list_ok) /\ UsersUnchanged
    \/ \E u \in Users : \E m \in Inputs(u) :
            \E lookup_ok \in BOOLEAN, store_ok \in BOOLEAN :
                process_task_assignee(u, m, lookup_ok, store_ok) /\ UsersUnchanged
    \/ \E u \in Users : \E m \in Inputs(u) : \E query_ok \in BOOLEAN :
            my_tasks(u, m, query_ok) /\ UsersUnchanged
    \/ \E u \in Users : \E m \in Inputs(u) : cancel_handler(u, m) /\ UsersUnchanged
    \/ \E u \in Users : \E m \in Inputs(u) :
            \E store_ok \in BOOLEAN, file_ok \in BOOLEAN :
                process_task_result(u, m, store_ok, file_ok) /\ UsersUnchanged
    \/ \E u \in Users : \E m \in Inputs(u) : on_menu(u, m) /\ UsersUnchanged
    \/ \E u \in Users : \E m \in Inputs(u) : \E query_ok \in BOOLEAN :
            on_mytasks(u, m, query_ok) /\ UsersUnchanged
    \/ \E u \in Users : \E m \in Inputs(u) : on_newtask(u, m) /\ UsersUnchanged
    \/ \E u \in Users : \E m \in Inputs(u) : \E query_ok \in BOOLEAN :
            on_select_task(u, m, query_ok) /\ UsersUnchanged
    \/ \E u \in Users : \E m \in Inputs(u) : \E query_ok \in BOOLEAN :
            on_cancel_action(u, m, query_ok) /\ UsersUnchanged
    \/ \E u \in Users : \E m \in Inputs(u) : \E store_ok \in BOOLEAN :
            handle_assign_callback(u, m, store_ok) /\ UsersUnchanged

Spec == Init /\ [][Next]_vars

\* ------------------------------------------------------------ first contact

\* Mutant of ExistingUsers: the answer of a select made before the insert
\* of another /start handler of the same user.
ExistingUsers_Stale(u) == <<>>

\* users.select("id").eq("telegram_id", telegram_id)
ExistingUsers(u) ==
    LET mine(r) == r.telegram_id = u
    IN  SelectSeq(users, mine)

\* The row send_welcome inserts into users; the store gives the id.
UserRow(u, m) ==
    [id |-> Len(users) + 1, telegram_id |-> u, username |-> m.username,
     first_name |-> <<"F">>, last_name |-> NoneVal]

\* send_welcome up to its first await: the select and, for a user without
\* row, the insert are synchronous calls that follow each other with no
\* await between them.  The handler then waits for message.reply.
send_welcome(u, m, select_ok, insert_ok) ==
    /\ Dispatch(state[u], m) = "send_welcome"
    /\ welcoming[u] < MaxWelcoming
    /\ IF ~select_ok
       THEN /\ UNCHANGED <<users, welcoming>>
            /\ ev' = Event(u, m, "send_welcome", FALSE, TRUE, FALSE)
       ELSE IF ExistingUsers(u) = <<>> /\ ~insert_ok
       THEN /\ UNCHANGED <<users, welcoming>>
            /\ ev' = Event(u, m, "send_welcome", FALSE, FALSE, TRUE)
       ELSE /\ users' = IF ExistingUsers(u) = <<>>
                        THEN Append(users, UserRow(u, m))
                        ELSE users
            /\ welcoming' = [welcoming EXCEPT ![u] = @ + 1]
            /\ ev' = Event(u, m, "send_welcome", TRUE, TRUE, TRUE)
    /\ out' = <<>>
    /\ lookups' = 0
    /\ UNCHANGED <<state, data, answering>>
    /\ StoreUnchanged

\* send_welcome from message.reply on: the greeting with the main menu.
send_welcome_reply(u) ==
    /\ welcoming[u] > 0
    /\ welcoming' = [welcoming EXCEPT ![u] = @ - 1]
    /\ out' = <<"welcome">> \o get_main_menu
    /\ ev' = Event(u, TextMsg(T_start), "send_welcome_reply", TRUE, TRUE, TRUE)
    /\ lookups' = 0
    /\ UNCHANGED <<state, data, users, answering>>
    /\ StoreUnchanged

\* Table users is empty, or holds the row of an earlier run.
StartInit ==
    /\ state = [u \in Users |-> NoState]
    /\ data = [u \in Users |-> EmptyData]
    /\ leads = <<>>
    /\ tasks = <<>>
    /\ task_files = <<>>
    /\ out = <<>>
    /\ lookups = 0
    /\ ev = NoEvent
    /\ users \in {<<>>,
                  <<[id |-> 1, telegram_id |-> 1, username |-> <<"a">>,
                     first_name |-> <<"F">>, last_name |-> NoneVal]>>}
    /\ welcoming = [u \in Users |-> 0]
    /\ writes = <<>>
    /\ answering = [u \in Users |-> <<>>]

\* /start of any user at any time, the handlers interleaved at their await.
StartNext ==
    \/ \E u \in Users : \E name \in Usernames :
            \E select_ok \in BOOLEAN, insert_ok \in BOOLEAN :
                send_welcome(u, StartMsg(name), select_ok, insert_ok)
    \/ \E u \in Users : send_welcome_reply(u)

StartSpec == StartInit /\ [][StartNext]_vars

\* ------------------------------------------- the task dialog on its own

\* The task dialog of every user from /newtask to the choice of assign:self,
\* the dialogs of the users interleaved, with a title of blanks among the
\* inputs.
NewTaskNext ==
    \/ \E u \in Users : new_task(u, TextMsg(T_newtask)) /\ UsersUnchanged
    \/ \E u \in Users : \E t \in {T_title, T_blank} : process_task_title(u, TextMsg(t)) /\ UsersUnchanged
    \/ \E u \in Users : process_task_client(u, TextMsg(T_dash)) /\ UsersUnchanged
    \/ \E u \in Users : \E t \in {T_due, T_dueBad} : process_task_due_date(u, TextMsg(t)) /\ UsersUnchanged
    \/ \E u \in Users : \E lookup_ok \in BOOLEAN, list_ok \in BOOLEAN :
            process_task_description(u, TextMsg(T_dashsp), lookup_ok, list_ok) /\ UsersUnchanged
    \/ \E u \in Users : \E store_ok \in BOOLEAN :
            handle_assign_callback(u, CallbackMsg(D_assign \o D_self), store_ok) /\ UsersUnchanged

NewTaskSpec == Init /\ [][NewTaskNext]_vars

\* --------------------------------------- button handlers at their await

\* The dispatcher starts a task for every update it polls, so a handler
\* that waits at an await leaves the event loop to the handlers of later
\* updates, those of the same chat included.  on_mytasks, on_select_task
\* and handle_assign_callback wait for callback.answer() before they query
\* or insert; the calls of the store client and of MemoryStorage do not
\* suspend.

\* A button handler up to "await callback.answer()": the press passed the
\* filters in the state of the chat at that time; on_mytasks and
\* on_select_task have finished the dialog, handle_assign_callback has
\* done nothing yet.
callback_answer(u, m) ==
    /\ Dispatch(state[u], m) \in {"on_mytasks", "on_select_task", "handle_assign_callback"}
    /\ Cardinality({<<v, k>> \in Users \X (1..MaxAnswering) : k <= Len(answering[v])})
            < MaxAnswering
    /\ answering' = [answering EXCEPT ![u] =
            Append(@, [handler |-> Dispatch(state[u], m), msg |-> m])]
    /\ IF Dispatch(state[u], m) = "handle_assign_callback"
       THEN UNCHANGED <<state, data>>
       ELSE Finish(u)
    /\ ev' = Event(u, m, "callback.answer", TRUE, TRUE, TRUE)
    /\ out' = <<"answer">>
    /\ lookups' = 0
    /\ StoreUnchanged
    /\ UNCHANGED <<users, welcoming>>

\* The handlers of chat u that wait, without the k-th.
Answered(u, k) ==
    [answering EXCEPT ![u] = SubSeq(@, 1, k - 1) \o SubSeq(@, k + 1, Len(@))]

\* handle_assign_callback from the return of callback.answer() on: the
\* scratch is read as it is by then.
handle_assign_callback_answered(u, k, store_ok) ==
    /\ k \in DOMAIN answering[u]
    /\ answering[u][k].handler = "handle_assign_callback"
    /\ store_ok => Len(tasks) < MaxPressRows
    /\ answering' = Answered(u, k)
    /\ IF store_ok
       THEN /\ tasks' = Append(tasks,
                            TaskRow(u, data[u],
                                    AssigneeOfCode(u, AfterColon(answering[u][k].msg.text))))
            /\ Finish(u)
            /\ out' = <<"edit_markup", "task_added">>
       ELSE /\ UNCHANGED <<state, data, tasks>>
            /\ out' = <<>>
    /\ ev' = Event(u, answering[u][k].msg, "handle_assign_callback_answered",
                   store_ok, store_ok, TRUE)
    /\ writes' = <<"tasks.insert">>
    /\ lookups' = 0
    /\ UNCHANGED <<leads, task_files, users, welcoming>>

\* on_mytasks from the return of callback.answer() on: the two queries, one
\* after the other with no await between them, and the list.
on_mytasks_answered(u, k, query_ok) ==
    /\ k \in DOMAIN answering[u]
    /\ answering[u][k].handler = "on_mytasks"
    /\ answering' = Answered(u, k)
    /\ ev' = Event(u, answering[u][k].msg, "on_mytasks_answered", TRUE, query_ok, TRUE)
    /\ out' = IF query_ok THEN TaskListReply(u) ELSE TaskListError
    /\ lookups' = 0
    /\ UNCHANGED <<state, data, users, welcoming>>
    /\ StoreUnchanged

\* on_select_task from the return of callback.answer() on: update_data
\* adds the task id to the scratch as it is by then.
on_select_task_answered(u, k, query_ok) ==
    /\ k \in DOMAIN answering[u]
    /\ answering[u][k].handler = "on_select_task"
    /\ answering' = Answered(u, k)
    /\ LET task_id == AfterColon(answering[u][k].msg.text)
       IN  IF TaskFound(task_id, query_ok)
           THEN /\ data' = [data EXCEPT ![u] = Put(@, "task_id", task_id)]
                /\ state' = [state EXCEPT ![u] = "TaskResultForm:awaiting_result"]
                /\ out' = <<"ask_result">>
           ELSE /\ UNCHANGED <<state, data>>
                /\ out' = <<"task_not_found">>
    /\ ev' = Event(u, answering[u][k].msg, "on_select_task_answered", TRUE, query_ok, TRUE)
    /\ lookups' = 0
    /\ UNCHANGED <<users, welcoming>>
    /\ StoreUnchanged

\* The inputs of the model in this specification.
PressInputs ==
    {TextMsg(t) : t \in {T_newtask, T_title, T_dash, T_due, T_dashsp, T_done}}
        \cup {CallbackMsg(d) : d \in {D_assign \o D_self, D_mytasks, D_task \o <<"1">>}}

\* The task dialog, the list and the selection of a task with the button
\* handlers suspended at callback.answer(), the chats and the handlers of
\* one chat interleaved there.
PressNext ==
    \/ \E u \in Users : \E m \in Inputs(u) \cap PressInputs :
            new_task(u, m) /\ UsersUnchanged
    \/ \E u \in Users : \E m \in Inputs(u) \cap PressInputs :
            process_task_title(u, m) /\ UsersUnchanged
    \/ \E u \in Users : \E m \in Inputs(u) \cap PressInputs :
            process_task_client(u, m) /\ UsersUnchanged
    \/ \E u \in Users : \E m \in Inputs(u) \cap PressInputs :
            process_task_due_date(u, m) /\ UsersUnchanged
    \/ \E u \in Users : \E m \in Inputs(u) \cap PressInputs :
            process_task_description(u, m, TRUE, TRUE) /\ UsersUnchanged
    \/ \E u \in Users : \E m \in Inputs(u) \cap PressInputs :
            callback_answer(u, m)
    \/ \E u \in Users : \E k \in 1..MaxAnswering : \E store_ok \in BOOLEAN :
            handle_assign_callback_answered(u, k, store_ok)
    \/ \E u \in Users : \E k \in 1..MaxAnswering : \E query_ok \in BOOLEAN :
            on_mytasks_answered(u, k, query_ok)
    \/ \E u \in Users : \E k \in 1..MaxAnswering : \E query_ok \in BOOLEAN :
            on_select_task_answered(u, k, query_ok)
    \/ \E u \in Users : \E m \in Inputs(u) \cap PressInputs :
            \E store_ok \in BOOLEAN :
                process_task_result(u, m, store_ok, TRUE) /\ UsersUnchanged

PressSpec == Init /\ [][PressNext]_vars

\* ------------------------------------------------- the queries on their own

\* The most rows of table tasks when the list is built from a table found
\* as it is.
MaxListRows == 3

\* The due_date values of the rows found: none, and two as isoformat()
\* wrote them.
DueValues ==
    {NoneVal,
     IsoFormat([year |-> 2024, month |-> 6, day |-> 1, hour |-> 9, minute |-> 0]),
     IsoFormat([year |-> 2025, month |-> 1, day |-> 1, hour |-> 10, minute |-> 0])}

\* A row of table tasks as the assignee handlers wrote it.
FoundRows(id) ==
    {[id |-> id, title |-> <<"t">>, client |-> NoneVal, due_date |-> due,
      description |-> NoneVal, status |-> STATUS_IN_PROGRESS,
      assigner_telegram_id |-> a, assignee_telegram_id |-> b, result |-> NoneVal] :
        a \in Users, b \in Users, due \in DueValues}

\* The contents of table tasks the bot may find.
StoreContents ==
    UNION {{rows \in [1..n -> UNION {FoundRows(id) : id \in 1..n}] :
                \A i \in 1..n : rows[i].id = i} : n \in 0..MaxListRows}

\* Every user whose profile prompt_for_assignee may look up.
Requesters == Users \cup {Profiles[i].telegram_id : i \in DOMAIN Profiles}

\* prompt_for_assignee for a requester at the end of the description step.
prompt_for_assignee(u, role_ok, list_ok) ==
    /\ out' = PromptReply(u, role_ok, list_ok)
    /\ lookups' = PromptLookups(u, role_ok)
    /\ ev' = [user |-> u, msg |-> TextMsg(T_note), handler |-> "prompt_for_assignee",
              pre |-> "TaskForm:description", ok |-> TRUE, store_ok |-> list_ok,
              lookup_ok |-> role_ok]
    /\ UNCHANGED <<state, data>>
    /\ StoreUnchanged

QueryInit ==
    /\ state = [u \in Users |-> NoState]
    /\ data = [u \in Users |-> EmptyData]
    /\ leads = <<>>
    /\ tasks \in StoreContents
    /\ task_files = <<>>
    /\ out = <<>>
    /\ lookups = 0
    /\ ev = NoEvent
    /\ users = <<>>
    /\ welcoming = [u \in Users |-> 0]
    /\ writes = <<>>
    /\ answering = [u \in Users |-> <<>>]

QueryNext ==
    \/ \E u \in Users : \E query_ok \in BOOLEAN :
            my_tasks(u, TextMsg(T_mytasks), query_ok) /\ UsersUnchanged
    \/ \E u \in Users : \E query_ok \in BOOLEAN :
            on_mytasks(u, CallbackMsg(D_mytasks), query_ok) /\ UsersUnchanged
    \/ \E u \in Users : \E query_ok \in BOOLEAN :
            on_cancel_action(u, CallbackMsg(D_cancel_action), query_ok) /\ UsersUnchanged
    \/ \E u \in Requesters : \E role_ok \in BOOLEAN, list_ok \in BOOLEAN :
            prompt_for_assignee(u, role_ok, list_ok) /\ UsersUnchanged

QuerySpec == QueryInit /\ [][QueryNext]_vars

\* ------------------------------------------------------------------ claims

\* What the claims say of the event handled last.
IsText(m) == m.content_type = "text"
IsCancelInput(m) == IsText(m) /\ (IsCommand(m, C_cancel) \/ IsCancelText(m))
IsButton(m, d) == m.content_type = "callback" /\ m.text = d
Store == <<leads, tasks, task_files>>

LeadKeys == {"name", "phone", "email"}
TaskKeys == {"title", "client", "due_date", "description"}
ResultKeys == {"task_id"}

C2_CancelFromEveryPosition ==
    [][(IsCancelInput(ev'.msg) /\ ev'.user \in Users /\ state[ev'.user] # NoState)
        => /\ state'[ev'.user] = NoState
           /\ data'[ev'.user] = EmptyData
           /\ UNCHANGED Store]_vars

\* C3 (as claimed): in every dialog position, a press of menu, mytasks,
\* newtask or task:<id> clears the dialog and its scratch: afterwards the
\* position is none (menu, mytasks), task_title with empty scratch
\* (newtask), or awaiting_result holding the id alone (task:<id> of an
\* existing task, the task query answering).
C3_ButtonsClearDialog ==
    [][\A u \in Users : ev'.user = u =>
        /\ (IsButton(ev'.msg, D_menu) \/ IsButton(ev'.msg, D_mytasks))
            => state'[u] = NoState /\ data'[u] = EmptyData
        /\ IsButton(ev'.msg, D_newtask)
            => state'[u] = "TaskForm:title" /\ data'[u] = EmptyData
        /\ (IsButton(ev'.msg, D_task \o <<"1">>) /\ Len(tasks) >= 1 /\ ev'.store_ok)
            => /\ state'[u] = "TaskResultForm:awaiting_result"
               /\ data'[u] = [task_id |-> <<"1">>]]_vars

\* C4: /cancel or the text "cancel" received while the dialog position is
\* none changes neither the position, nor the scratch, nor the store, and
\* sends nothing.
C4_CancelAtNoneIsNoOp ==
    [][(IsCancelInput(ev'.msg) /\ ev'.user \in Users /\ state[ev'.user] = NoState)
        => /\ UNCHANGED <<state, data>>
           /\ UNCHANGED Store
           /\ out' = <<>>]_vars

\* C4 witness: a cancel was handled at position none with a row in the
\* store.
C4_Witness ==
    /\ IsCancelInput(ev.msg)
    /\ ev.pre = NoState
    /\ ev.handler = "cancel_handler"
    /\ Len(leads) + Len(tasks) > 0
    /\ out = <<>>

\* The texts of the model that are no date and time YYYY-MM-DD HH:MM.
NotADueDate == {T_dueBad, T_dueFeb30, T_slcancel}

\* C5: at the due step a text that does not parse as YYYY-MM-DD HH:MM
\* leaves the position at the due step, the scratch (title and client) and
\* the store unchanged, stores no due value, and sends the format error;
\* this holds of every such input, however many came before.
C5_BadDueDateRetries ==
    [][\A u \in Users :
        (ev'.user = u /\ state[u] = "TaskForm:due_date" /\ IsText(ev'.msg)
            /\ ev'.msg.text \in NotADueDate)
        => /\ state'[u] = "TaskForm:due_date"
           /\ data'[u] = data[u]
           /\ "due_date" \notin DOMAIN data'[u]
           /\ UNCHANGED Store
           /\ out' = <<"due_format_error">>]_vars

\* C5 witness: 30 February was rejected at the due step; the step is still
\* pending with title and client in the scratch.
C5_Witness ==
    /\ ev.handler = "process_task_due_date"
    /\ ev.msg.text = T_dueFeb30
    /\ ev.pre = "TaskForm:due_date"
    /\ out = <<"due_format_error">>
    /\ state[ev.user] = "TaskForm:due_date"
    /\ DOMAIN data[ev.user] = {"title", "client"}

\* The texts of the model with their leading and trailing blanks removed
\* by hand.
Trimmed(t) ==
    CASE t = T_Anna   -> <<"A", "n", "n", "a">>
      [] t = T_cancel -> <<"c", "a", "n", "c", "e", "l">>
      [] t = T_phone  -> <<"+", "1", "2">>
      [] t = T_email  -> <<"a", "@", "b">>
      [] t = T_title  -> <<"F", "i", "x", " ", "b", "u", "g">>
      [] t = T_Acme   -> <<"A", "c", "m", "e">>
      [] t = T_note   -> <<"n", "o", "t", "e">>
      [] t = T_dash   -> <<"-">>
      [] t = T_dashsp -> <<"-">>

\* C6: from no dialog, /newlead opens the name step, and three texts in a
\* row are taken, trimmed, as name, phone and email; the third one, when
\* the store accepts the insert, adds exactly one Lead with these three
\* values owned by the sender and leaves position none with empty scratch.
\* No Lead is added by any event but a text at the email step.
C6_LeadCapture ==
    [][\A u \in Users : ev'.user = u =>
        /\ (state[u] = NoState /\ ev'.msg = TextMsg(T_newlead))
            => /\ state'[u] = "LeadForm:name"
               /\ data'[u] = EmptyData
               /\ UNCHANGED Store
        /\ (state[u] = "LeadForm:name" /\ IsText(ev'.msg))
            => /\ state'[u] = "LeadForm:phone"
               /\ data'[u] = [name |-> Trimmed(ev'.msg.text)]
               /\ UNCHANGED Store
        /\ (state[u] = "LeadForm:phone" /\ IsText(ev'.msg))
            => /\ state'[u] = "LeadForm:email"
               /\ data'[u] = [name |-> data[u]["name"], phone |-> Trimmed(ev'.msg.text)]
               /\ UNCHANGED Store
        /\ (state[u] = "LeadForm:email" /\ IsText(ev'.msg) /\ ev'.store_ok)
            => /\ leads' = Append(leads,
                    [telegram_id |-> u, name |-> data[u]["name"],
                     phone |-> data[u]["phone"], email |-> Trimmed(ev'.msg.text)])
               /\ state'[u] = NoState
               /\ data'[u] = EmptyData
               /\ UNCHANGED <<tasks, task_files>>
        /\ leads' # leads
            => state[u] = "LeadForm:email" /\ IsText(ev'.msg)]_vars

\* C6 witness: user 2 sent " Anna ", "+12 " and " a@b" after /newlead: the
\* one Lead is Anna, +12, a@b of owner 2, and the dialog is over.
C6_Witness ==
    /\ ev.handler = "process_lead_email"
    /\ ev.user = 2
    /\ ev.store_ok
    /\ leads = <<[telegram_id |-> 2, name |-> <<"A", "n", "n", "a">>,
                  phone |-> <<"+", "1", "2">>, email |-> <<"a", "@", "b">>]>>
    /\ state[2] = NoState
    /\ data[2] = EmptyData

\* The value a text leaves in an optional field: absent for "-".
Optional(t) == IF t \in {T_dash, T_dashsp} THEN NoneVal ELSE Trimmed(t)

\* The identity each assignee selection of the model stands for, for the
\* sender u; the name "cY" is looked up.
Selections(u) ==
    {<<CallbackMsg(D_assign \o D_self), u>>,
     <<CallbackMsg(D_assign \o <<"5">>), 5>>,
     <<TextMsg(T_zero), u>>,
     <<TextMsg(T_five), 5>>,
     <<TextMsg(T_cy), 5>>}

\* C7: the task dialog takes the trimmed title, the client and the
\* description (absent for "-"), and the parsed due time; an assignee
\* selection then, when the lookup and the insert succeed, adds exactly one
\* Task with these values, status "in progress", the sender as assigner and
\* the selected identity as assignee (the sender for assign:self), and
\* leaves position none with empty scratch.
C7_TaskCreation ==
    [][\A u \in Users : ev'.user = u =>
        /\ (state[u] = "TaskForm:title" /\ IsText(ev'.msg))
            => /\ state'[u] = "TaskForm:client"
               /\ data'[u] = [title |-> Trimmed(ev'.msg.text)]
               /\ UNCHANGED Store
        /\ (state[u] = "TaskForm:client" /\ IsText(ev'.msg))
            => /\ state'[u] = "TaskForm:due_date"
               /\ data'[u] = [title |-> data[u]["title"],
                              client |-> Optional(ev'.msg.text)]
               /\ UNCHANGED Store
        /\ (state[u] = "TaskForm:due_date" /\ ev'.msg = TextMsg(T_due))
            => /\ state'[u] = "TaskForm:description"
               /\ data'[u] = [title |-> data[u]["title"], client |-> data[u]["client"],
                              due_date |-> <<"2", "0", "2", "5", "-", "0", "6", "-",
                                             "0", "1", "T", "1", "2", ":", "0", "0",
                                             ":", "0", "0">>]
               /\ UNCHANGED Store
        /\ (state[u] = "TaskForm:description" /\ IsText(ev'.msg))
            => /\ state'[u] = "TaskForm:assignee"
               /\ data'[u] = [title |-> data[u]["title"], client |-> data[u]["client"],
                              due_date |-> data[u]["due_date"],
                              description |-> Optional(ev'.msg.text)]
               /\ UNCHANGED Store
        /\ \A sel \in Selections(u) :
            (state[u] = "TaskForm:assignee" /\ ev'.msg = sel[1]
                /\ ev'.store_ok /\ ev'.lookup_ok)
            => /\ tasks' = Append(tasks,
                    [id |-> Len(tasks) + 1,
                     title |-> data[u]["title"],
                     client |-> data[u]["client"],
                     due_date |-> data[u]["due_date"],
                     description |-> data[u]["description"],
                     status |-> "in progress",
                     assigner_telegram_id |-> u,
                     assignee_telegram_id |-> sel[2],
                     result |-> NoneVal])
               /\ state'[u] = NoState
               /\ data'[u] = EmptyData
               /\ UNCHANGED <<leads, task_files>>]_vars

\* C7 witness: /newtask, " Fix bug", "-", "2025-06-01 12:00", " - " and
\* the press of assign:self by user 2 left the one Task of the spec's
\* example.
C7_Witness ==
    /\ ev.handler = "handle_assign_callback"
    /\ ev.msg = CallbackMsg(D_assign \o D_self)
    /\ ev.user = 2
    /\ tasks = <<[id |-> 1,
                  title |-> <<"F", "i", "x", " ", "b", "u", "g">>,
                  client |-> NoneVal,
                  due_date |-> <<"2", "0", "2", "5", "-", "0", "6", "-", "0", "1",
                                 "T", "1", "2", ":", "0", "0", ":", "0", "0">>,
                  description |-> NoneVal,
                  status |-> "in progress",
                  assigner_telegram_id |-> 2,
                  assignee_telegram_id |-> 2,
                  result |-> NoneVal]>>
    /\ state[2] = NoState
    /\ data[2] = EmptyData

\* The texts of the model that are no number, and the profiles whose
\* display name equals a text without regard to case.
NameTexts == {T_cy, T_bob, T_zed, T_Cancel}
NameMatches(t) == {i \in DOMAIN Profiles : Lower(Profiles[i].full_name) = Lower(t)}

OwnIdText(u) == IF u = 1 THEN <<" ", "1">> ELSE <<" ", "2">>

\* C9: at the assignee step the text "0" or the sender's own identity
\* issues no profile lookup and, when the store accepts the insert, creates
\* the Task with the sender as assignee.
C9_SelfByText ==
    [][\A u \in Users :
        (ev'.user = u /\ state[u] = "TaskForm:assignee" /\ IsText(ev'.msg)
            /\ ev'.msg.text \in {T_zero, OwnIdText(u)})
        => /\ lookups' = 0
           /\ ev'.store_ok
                => /\ Len(tasks') = Len(tasks) + 1
                   /\ tasks'[Len(tasks')].assignee_telegram_id = u
                   /\ tasks'[Len(tasks')].assigner_telegram_id = u]_vars

\* C9 witness: user 2 sent "0" at the assignee step and is the assignee of
\* the Task, no lookup issued.
C9_Witness ==
    /\ ev.handler = "process_task_assignee"
    /\ ev.msg.text = T_zero
    /\ ev.user = 2
    /\ ev.store_ok
    /\ lookups = 0
    /\ Len(tasks) = 1
    /\ tasks[1].assignee_telegram_id = 2

\* C10 (as claimed): the assignee of every Task is the requester or a
\* profile whose role is in ROLE_ASSIGNMENT_MAP of the requester's role (no
\* role for a requester without profile).
C10_AssigneeEligible ==
    \A i \in DOMAIN tasks :
        \/ tasks[i].assignee_telegram_id = tasks[i].assigner_telegram_id
        \/ \E j \in DOMAIN Profiles :
            /\ Profiles[j].telegram_id = tasks[i].assignee_telegram_id
            /\ Profiles[j].role
                \in ROLE_ASSIGNMENT_MAP(AssignerRole(tasks[i].assigner_telegram_id, TRUE))

\* The task list shown by the event handled last: the ids of the task
\* buttons of the keyboard sent, top to bottom (between the add-task button
\* and the menu button).
ListHandlers == {"my_tasks", "on_mytasks", "on_cancel_action"}
ListShown == ev.handler \in ListHandlers /\ ev.store_ok
FirstButton ==
    CASE ev.handler = "my_tasks" -> 2
      [] ev.handler = "on_mytasks" -> 3
      [] ev.handler = "on_cancel_action" -> 4
Shown ==
    [i \in 1..(Len(out) - FirstButton - 1) |->
        CHOOSE id \in {tasks[k].id : k \in DOMAIN tasks} :
            out[FirstButton + i] = "task:" \o ToString(id)]
TimesShown(id) == Cardinality({i \in DOMAIN Shown : Shown[i] = id})

\* C11: whatever the table holds, the list shown to user X holds a task
\* whose assigner and assignee are both X exactly once, and every task
\* whose assigner or assignee is X at least once.
C11_ListHoldsEachTaskOnce ==
    ListShown =>
        \A k \in DOMAIN tasks :
            LET t == tasks[k]
            IN  /\ (t.assigner_telegram_id = ev.user /\ t.assignee_telegram_id = ev.user)
                    => TimesShown(t.id) = 1
                /\ (t.assigner_telegram_id = ev.user \/ t.assignee_telegram_id = ev.user)
                    => TimesShown(t.id) >= 1

\* C11 witness: the list of user 1 was shown over a table of three tasks of
\* hers: one she gave herself, one she gave to user 2, one user 2 gave her.
C11_Witness ==
    /\ ListShown
    /\ ev.user = 1
    /\ Len(tasks) = 3
    /\ tasks[1].assigner_telegram_id = 2 /\ tasks[1].assignee_telegram_id = 1
    /\ tasks[2].assigner_telegram_id = 1 /\ tasks[2].assignee_telegram_id = 1
    /\ tasks[3].assigner_telegram_id = 1 /\ tasks[3].assignee_telegram_id = 2
    /\ Len(Shown) = 3
    /\ TimesShown(2) = 1

\* The row of the table with an id, and its place in the table.
PlaceOf(id) == CHOOSE k \in DOMAIN tasks : tasks[k].id = id

\* The due time of a task in minutes, read from YYYY-MM-DDTHH:MM:SS field by
\* field; 0 for a task without due date.
DueMinutes(t) ==
    IF t.due_date = NoneVal THEN 0
    ELSE LET d == t.due_date
         IN  (((IntOf(SubSeq(d, 1, 4)) * 12 + IntOf(SubSeq(d, 6, 7))) * 31
                + IntOf(SubSeq(d, 9, 10))) * 24
                + IntOf(SubSeq(d, 12, 13))) * 60 + IntOf(SubSeq(d, 15, 16))

\* C12: the list shown is in ascending order of due time, the tasks
\* without due date first; among tasks of equal due time those the user
\* assigned (the rows of the assigner query) come before those only
\* assigned to the user, each group in the order of the table.
C12_ListSortedStable ==
    ListShown =>
        \A i \in DOMAIN Shown : \A j \in DOMAIN Shown :
            i < j =>
                LET a == tasks[PlaceOf(Shown[i])]
                    b == tasks[PlaceOf(Shown[j])]
                    mineA == a.assigner_telegram_id = ev.user
                    mineB == b.assigner_telegram_id = ev.user
                IN  /\ DueMinutes(a) <= DueMinutes(b)
                    /\ DueMinutes(a) = DueMinutes(b)
                        => \/ mineA /\ ~mineB
                           \/ (mineA <=> mineB) /\ PlaceOf(Shown[i]) < PlaceOf(Shown[j])

\* C12 witness: the table holds a task due 2025-01-01 10:00, one due
\* 2024-06-01 09:00 and one without due date, in this order; the list shows
\* the third, the second, the first.
C12_Witness ==
    /\ ListShown
    /\ Len(tasks) = 3
    /\ DueMinutes(tasks[1]) > DueMinutes(tasks[2])
    /\ DueMinutes(tasks[2]) > 0
    /\ tasks[3].due_date = NoneVal
    /\ Shown = <<3, 2, 1>>

\* C13 (as claimed): whichever trigger builds the task list (/mytasks, the
\* mytasks button, the cancel_action button), when a task query fails the
\* user is sent the retry-later notice and no task list.
C13_QueryFailureNotice ==
    (ev.handler \in ListHandlers /\ ~ev.store_ok)
        => /\ \E i \in DOMAIN out : out[i] = "tasks_error"
           /\ \A i \in DOMAIN out : out[i] \notin {"tasks_list", "no_tasks"}

\* The table of the roles a requester of a role may assign tasks to.
EligibleRoles(role) ==
    IF role = "project_head" THEN {"team_leader"}
    ELSE IF role = "team_leader" THEN {"region_manager"}
    ELSE IF role = "region_manager" THEN {"junior_manager"}
    ELSE {}

\* The profiles a requester may be offered: those of a role eligible for
\* the role of the requester's profile, the requester's own left out; none
\* for a requester without profile.
Eligible(u) ==
    {p \in {Profiles[i] : i \in DOMAIN Profiles} :
        /\ p.telegram_id # u
        /\ \E q \in {Profiles[i] : i \in DOMAIN Profiles} :
            q.telegram_id = u /\ p.role \in EligibleRoles(q.role)}

PromptShown == ev.handler \in {"prompt_for_assignee", "process_task_description"}

\* C14: the keyboard of the assignee prompt starts with assign:self and
\* goes on with one button for each profile of a role eligible for the
\* requester's role, the requester left out, and no other; it is assign:self
\* alone when the requester has no profile or a profile lookup failed (the
\* requester's role: lookup_ok, the list: store_ok); the prompt is sent in
\* every case.
C14_ProposedAssignees ==
    PromptShown =>
        LET offered == IF ev.lookup_ok /\ ev.store_ok THEN Eligible(ev.user) ELSE {}
        IN  /\ ev.ok
            /\ Len(out) = 2 + Cardinality(offered)
            /\ out[1] = "choose_assignee"
            /\ out[2] = "assign:self"
            /\ {out[i] : i \in 3..Len(out)}
                    = {"assign:" \o ToString(p.telegram_id) : p \in offered}

\* C14 witness: region manager 1 is offered herself, then the two junior
\* managers 3 and 7.
C14_Witness ==
    /\ ev.handler = "prompt_for_assignee"
    /\ ev.user = 1
    /\ ev.lookup_ok /\ ev.store_ok
    /\ out = <<"choose_assignee", "assign:self", "assign:3", "assign:7">>

\* The role of the profile of a user, "None" without profile.
RoleOf(u) ==
    IF \E i \in DOMAIN Profiles : Profiles[i].telegram_id = u
    THEN Profiles[CHOOSE i \in DOMAIN Profiles : Profiles[i].telegram_id = u].role
    ELSE "None"

\* C15: the roles eligible for a requester's role are team_leader for
\* project_head, region_manager for team_leader, junior_manager for
\* region_manager, none for junior_manager and none for any other or absent
\* role; the prompt asks for the profiles of the eligible roles exactly when
\* there are any.
C15_EligibleRolesTable ==
    /\ ROLE_ASSIGNMENT_MAP("project_head") = {"team_leader"}
    /\ ROLE_ASSIGNMENT_MAP("team_leader") = {"region_manager"}
    /\ ROLE_ASSIGNMENT_MAP("region_manager") = {"junior_manager"}
    /\ ROLE_ASSIGNMENT_MAP("junior_manager") = {}
    /\ \A role \in {"intern", "admin", "", "None"} : ROLE_ASSIGNMENT_MAP(role) = {}
    /\ (PromptShown /\ ev.lookup_ok)
        => lookups = IF RoleOf(ev.user) \in {"project_head", "team_leader", "region_manager"}
                     THEN 2 ELSE 1

\* C15 witness: the prompt for user 6, whose role "intern" the table does
\* not hold, offers assign:self alone without asking for any profile list.
C15_Witness ==
    /\ ev.handler = "prompt_for_assignee"
    /\ ev.user = 6
    /\ RoleOf(6) = "intern"
    /\ ev.lookup_ok /\ ev.store_ok
    /\ lookups = 1
    /\ out = <<"choose_assignee", "assign:self">>

\* The inputs of the model that carry a file, and the file token each
\* carries (of a photo: the token of its last, largest size).
IsFile(m) == m.content_type \in {"document", "photo"}
TokenOf(m) == IF m.content_type = "document" THEN <<"f", "1">> ELSE <<"p", "2">>

\* Task 1 with a result attached.
Attached(payload) ==
    [tasks EXCEPT ![1] = [@ EXCEPT !.status = "result pending review",
                                   !.result = payload]]

C17_OtherInputRejected ==
    [][\A u \in Users :
        (ev'.user = u /\ state[u] = "TaskResultForm:awaiting_result"
            /\ ev'.msg.content_type \notin {"text", "document", "photo", "callback"})
        => /\ state'[u] = "TaskResultForm:awaiting_result"
           /\ data'[u] = data[u]
           /\ DOMAIN data'[u] = ResultKeys
           /\ UNCHANGED Store
           /\ out' = <<"ask_text_or_file">>]_vars

\* C17 witness: a sticker was sent at awaiting_result for task 1: the user
\* is asked again, the task has no result and the dialog still waits.
C17_Witness ==
    /\ ev.handler = "process_task_result"
    /\ ev.msg = StickerMsg
    /\ ev.pre = "TaskResultForm:awaiting_result"
    /\ out = <<"ask_text_or_file">>
    /\ state[ev.user] = "TaskResultForm:awaiting_result"
    /\ data[ev.user] = [task_id |-> <<"1">>]
    /\ tasks[1].result = NoneVal
    /\ task_files = <<>>

\* C18 (as claimed): a task whose result has been attached (status "result
\* pending review") is never updated again.
C18_ResultAttachedOnce ==
    [][\A i \in DOMAIN tasks :
        tasks[i].status = "result pending review" => tasks'[i] = tasks[i]]_vars

\* C19 (as claimed): at the title step a text that is empty once its
\* blanks are trimmed is not accepted: the dialog does not move on to the
\* client step, and no Task has an empty title.
C19_BlankTitleRejected ==
    [][/\ \A u \in Users :
            (ev'.user = u /\ state[u] = "TaskForm:title" /\ IsText(ev'.msg)
                /\ \A i \in DOMAIN ev'.msg.text : ev'.msg.text[i] \in {" ", "\t", "\n"})
            => state'[u] # "TaskForm:client"
       /\ \A i \in DOMAIN tasks' : tasks'[i].title # <<>>]_vars

TaskOrder ==
    <<"TaskForm:title", "TaskForm:client", "TaskForm:due_date",
      "TaskForm:description", "TaskForm:assignee">>
TaskStepHandlers ==
    <<"process_task_title", "process_task_client", "process_task_due_date",
      "process_task_description", "process_task_assignee">>
IsAssignPress(m) == m.content_type = "callback" /\ StartsWith(m.text, D_assign)

TerminalWrites ==
    [process_lead_email |-> {<<"leads.insert">>},
     process_task_assignee |-> {<<"tasks.insert">>},
     handle_assign_callback |-> {<<"tasks.insert">>},
     process_task_result |-> {<<"tasks.update">>, <<"tasks.update", "task_files.insert">>}]
TerminalPosition ==
    [process_lead_email |-> "LeadForm:email",
     process_task_assignee |-> "TaskForm:assignee",
     handle_assign_callback |-> "TaskForm:assignee",
     process_task_result |-> "TaskResultForm:awaiting_result"]

\* C22: an insert or update of leads, tasks or task_files is called only
\* while a terminal step is handled (the email text of the lead dialog, an
\* assignee text that resolves or an assign: press, an accepted result),
\* and the tables change in those events alone; while one event is handled
\* no call is made twice, also when it raises: the failing call is the last
\* one of the event; a due date that does not parse and an assignee that
\* does not resolve lead to no call.
C22_WritesAtTerminalSteps ==
    [][/\ writes' # <<>> =>
            /\ ev'.handler \in DOMAIN TerminalWrites
            /\ ev'.pre = TerminalPosition[ev'.handler]
            /\ writes' \in TerminalWrites[ev'.handler]
            /\ ev'.handler = "process_task_result" =>
                    /\ AcceptedContent(ev'.msg)
                    /\ Len(writes') = 2 => IsFile(ev'.msg)
                    /\ (IsFile(ev'.msg) /\ ev'.ok) => Len(writes') = 2
       /\ Store' # Store => writes' # <<>>
       /\ \A i \in DOMAIN writes' : \A j \in DOMAIN writes' :
            writes'[i] = writes'[j] => i = j
       /\ (ev'.handler \in DOMAIN TerminalWrites /\ ~ev'.ok) =>
            /\ writes' # <<>>
            /\ leads' = leads /\ task_files' = task_files
            /\ Len(tasks') = Len(tasks)
       /\ (ev'.handler = "process_task_due_date" /\ state'[ev'.user] = ev'.pre) =>
            writes' = <<>>
       /\ (ev'.handler = "process_task_assignee"
                /\ ResolveAssignee(ev'.user, Strip(ev'.msg.text), ev'.lookup_ok) = {}) =>
            writes' = <<>>]_vars

\* C22 witness: the insert of the task raised while assign:self was
\* handled: it was called once, no row was added, and the dialog still is
\* at the assignee position.
C22_Witness ==
    /\ ev.handler = "handle_assign_callback"
    /\ ~ev.ok
    /\ writes = <<"tasks.insert">>
    /\ tasks = <<>>
    /\ state[ev.user] = "TaskForm:assignee"

\* C23: whatever the events of the chats and their order, handling an event
\* of one chat, one that raises included, leaves the dialog position and
\* the scratch of every other chat as they were.
C23_OtherChatsUntouched ==
    [][\A v \in Users :
        v # ev'.user => state'[v] = state[v] /\ data'[v] = data[v]]_vars

\* C23 witness: the insert of the task of one chat raised while another
\* chat is in the middle of its own task dialog, title and client entered.
C23_Witness ==
    /\ ev.handler = "handle_assign_callback"
    /\ ~ev.ok
    /\ \E v \in Users :
        /\ v # ev.user
        /\ state[v] = "TaskForm:due_date"
        /\ DOMAIN data[v] = {"title", "client"}

\* Whether the task of the id a task: button carries exists with user u as
\* its assigner or its assignee.
OwnTask(u, task_id) ==
    /\ IsDigit(task_id)
    /\ \E i \in DOMAIN tasks :
        /\ tasks[i].id = IntOf(task_id)
        /\ u \in {tasks[i].assigner_telegram_id, tasks[i].assignee_telegram_id}

\* C24 (as claimed): a press of task:<id> puts the chat at awaiting_result
\* only when the task exists and the user who pressed is its assigner or
\* its assignee; otherwise the chat is left with no dialog and an empty
\* scratch and is told that the task was not found; and a result sent at
\* awaiting_result updates only tasks of which the sender is the assigner or
\* the assignee.
C24_OnlyOwnTaskSelected ==
    [][/\ ev'.handler = "on_select_task" =>
            IF OwnTask(ev'.user, AfterColon(ev'.msg.text))
            THEN TRUE
            ELSE /\ state'[ev'.user] = NoState
                 /\ data'[ev'.user] = EmptyData
                 /\ out' = <<"answer", "task_not_found">>
       /\ \A i \in DOMAIN tasks :
            (ev'.handler = "process_task_result" /\ tasks'[i] # tasks[i]) =>
                ev'.user \in {tasks[i].assigner_telegram_id,
                              tasks[i].assignee_telegram_id}]_vars

\* Whether d is a timestamp as isoformat() writes it: YYYY-MM-DDTHH:MM:SS.
IsTimestamp(d) ==
    /\ d # NoneVal
    /\ Len(d) = 19
    /\ \A i \in DOMAIN d :
        CASE i \in {5, 8} -> d[i] = "-"
          [] i = 11 -> d[i] = "T"
          [] i \in {14, 17} -> d[i] = ":"
          [] OTHER -> IsDigitChar(d[i])

\* The keys the scratch holds at a position once the steps before it were
\* passed.
PassedKeys(st) ==
    CASE st = "LeadForm:phone" -> {"name"}
      [] st = "LeadForm:email" -> {"name", "phone"}
      [] st = "TaskForm:client" -> {"title"}
      [] st = "TaskForm:due_date" -> {"title", "client"}
      [] st = "TaskForm:description" -> {"title", "client", "due_date"}
      [] st = "TaskForm:assignee" -> {"title", "client", "due_date", "description"}
      [] st = "TaskResultForm:awaiting_result" -> {"task_id"}
      [] OTHER -> {}

\* C26 (as claimed): in every reachable state the scratch of a chat holds
\* the fields of the steps it passed (name at the phone step, name and
\* phone at the email step, title, client, due date and description at the
\* assignee step, the due date a parsed timestamp, the task id at
\* awaiting_result); so every task in the table has a parsed due
\* timestamp, and process_task_result never answers "unknown task".
C26_ScratchHoldsPassedFields ==
    /\ \A u \in Users :
        /\ PassedKeys(state[u]) \subseteq DOMAIN data[u]
        /\ "due_date" \in PassedKeys(state[u]) => IsTimestamp(data[u]["due_date"])
        /\ state[u] = "TaskResultForm:awaiting_result" =>
                data[u]["task_id"] \notin {NoneVal, <<>>}
    /\ \A i \in DOMAIN tasks : IsTimestamp(tasks[i].due_date)
    /\ out # <<"unknown_task">>

\* The ids of the task buttons of the reply sent last, top to bottom.
IsTaskButton(b) == \E k \in DOMAIN tasks : b = "task:" \o ToString(tasks[k].id)
TaskButtonIds ==
    LET buttons == SelectSeq(out, IsTaskButton)
    IN  [i \in DOMAIN buttons |->
            CHOOSE id \in {tasks[k].id : k \in DOMAIN tasks} :
                buttons[i] = "task:" \o ToString(id)]

\* rows without every row whose id an earlier row has.
RECURSIVE DedupById(_)
DedupById(rows) ==
    IF rows = <<>> THEN <<>>
    ELSE LET front == DedupById(SubSeq(rows, 1, Len(rows) - 1))
             last == rows[Len(rows)]
         IN  IF \E i \in DOMAIN front : front[i].id = last.id
             THEN front
             ELSE Append(front, last)

ListSent ==
    /\ ev.handler \in ListHandlers \cup {"on_mytasks_answered"}
    /\ ev.store_ok

C27_AttachmentOfReviewedTask ==
    \A f \in DOMAIN task_files :
        /\ IsDigit(task_files[f].task_id)
        /\ \E i \in DOMAIN tasks :
            /\ tasks[i].id = IntOf(task_files[f].task_id)
            /\ tasks[i].status = STATUS_PENDING_REVIEW

\* C27 witness: a document was taken for the result of task 1: the table
\* task_files holds its row and the task is under review.
C27_Witness ==
    /\ ev.handler = "process_task_result"
    /\ ev.msg.content_type = "document"
    /\ ev.ok
    /\ Len(task_files) = 1
    /\ task_files[1].task_id = <<"1">>
    /\ task_files[1].file_url = ev.msg.document
    /\ tasks[1].status = STATUS_PENDING_REVIEW

\* C27 second witness: the insert into task_files failed after the update:
\* the task is under review and has no row in task_files.
C27_WitnessNoAttachment ==
    /\ ev.handler = "process_task_result"
    /\ IsFile(ev.msg)
    /\ ~ev.ok
    /\ task_files = <<>>
    /\ tasks[1].status = STATUS_PENDING_REVIEW

\* C28: when a write of a terminal step raises (the insert of the lead at
\* the email step, the insert of the task at the assignee step, by text or
\* by button, the update of the task or the insert of the attachment at
\* awaiting_result), the chat keeps its dialog position and its scratch as
\* they were before the event, and the same input sent again is taken by
\* the same handler.
C28_FailedWriteKeepsDialog ==
    [][(ev'.handler \in DOMAIN TerminalWrites /\ writes' # <<>> /\ ~ev'.ok) =>
            /\ state' = state
            /\ data' = data
            /\ state'[ev'.user] = TerminalPosition[ev'.handler]
            /\ PassedKeys(state'[ev'.user]) \subseteq DOMAIN data'[ev'.user]
            /\ Dispatch(state'[ev'.user], ev'.msg) = ev'.handler]_vars

\* C28 witness: the insert of the lead raised at the email step: the chat
\* still is at that step with name and phone in its scratch, and table
\* leads is empty.
C28_Witness ==
    /\ ev.handler = "process_lead_email"
    /\ ~ev.ok
    /\ writes = <<"leads.insert">>
    /\ state[ev.user] = "LeadForm:email"
    /\ data[ev.user] = [name |-> Strip(T_Anna), phone |-> Strip(T_phone)]
    /\ leads = <<>>

====
